---- MODULE Spec2Model ----
(***************************************************************************)
(* Model of printify_king_automation.py: one sequential run of main().     *)
(* Every HTTP call is one step; the vendor's response to it is an input    *)
(* drawn from a small set.  Python dicts are TLA+ records whose DOMAIN is  *)
(* the set of keys present, so a missing key is a KeyError.  An exception  *)
(* is handled in the step that raises it, as the interpreter does.         *)
(***************************************************************************)
EXTENDS Integers, Sequences, FiniteSets, TLC

VARIABLES
    API_KEY,     \* os.getenv("PRINTIFY_API_KEY")
    STORE_ID,    \* os.getenv("PRINTIFY_STORE_ID")
    LOGO_READABLE, \* whether open(LOGO_PATH, 'rb') succeeds
    pc,          \* position of the run in main()
    image_id,    \* main: image_id
    blueprints,  \* main: blueprints
    idx,         \* position of the for loop in blueprints (0 before the loop)
    providers,   \* main: providers
    provider,    \* main: provider
    variants,    \* main: variants
    product_id,  \* create_and_publish_product: product_id
    requests,    \* every HTTP request issued so far, in order, each with the
                 \* status of its response
    log,         \* every logging record emitted so far, in order
    exitStatus   \* exit status of the process, -1 while it runs

vars == <<API_KEY, STORE_ID, LOGO_READABLE, pc, image_id, blueprints, idx, providers, provider,
          variants, product_id, requests, log, exitStatus>>

-----------------------------------------------------------------------------
(* Bounds *)

MaxBlueprints == 2
MaxVariants == 3

-----------------------------------------------------------------------------
(* Program constants *)

PRICE == 2500
SLICE_END == 2
DEFAULT_POSITION == "front"
\* The text " \u2013 African Heritage Series" of line 68, as the sequence of
\* its parts: the character U+2013 (EN DASH) is written as its code point.
EN_DASH == 8211
TITLE_SUFFIX == <<" ", EN_DASH, " African Heritage Series">>
DESC_PREFIX == "Celebrate African pride and culture with this exclusive '"
DESC_SUFFIX == "' featuring the iconic FC Cabo Verde logo. Perfect for supporters of African design and football heritage."
PUBLISH_DATA == [title |-> TRUE, description |-> TRUE, images |-> TRUE,
                 variants |-> TRUE, tags |-> TRUE]

\* os.getenv of a variable that is not set returns None.
UNSET == "<None>"

-----------------------------------------------------------------------------
(* Inputs: environment values and vendor responses *)

EnvValues == {UNSET, "", "secret"}

Min(a, b) == IF a < b THEN a ELSE b

\* A response: ok is "status < 400"; body is resp.json().  A response
\* that is not ok carries one of the error bodies.
Responses(bodies, errorBodies) ==
    [ok : {TRUE}, body : bodies] \cup [ok : {FALSE}, body : errorBodies]

UploadBodies == {[id |-> "img_a"], [message |-> "no id"]}
UploadErrorBodies == {[id |-> "img_a"]}

\* The blueprint at position k of the catalog: complete, without "name",
\* or without "id".
BlueprintKinds == {"full", "noname", "noid"}
BlueprintName(k) == IF k = 1 THEN "Classic Tee" ELSE IF k = 2 THEN "Mug" ELSE "Hoodie"
MkBlueprint(k, kind) ==
    CASE kind = "full"   -> [id |-> k, name |-> BlueprintName(k)]
      [] kind = "noname" -> [id |-> k, title |-> BlueprintName(k)]
      [] kind = "noid"   -> [name |-> BlueprintName(k)]
BlueprintLists ==
    UNION {{[k \in 1..n |-> MkBlueprint(k, kinds[k])] : kinds \in [1..n -> BlueprintKinds]}
           : n \in 0..MaxBlueprints}

ProviderLists == {<<>>, <<[id |-> 7], [id |-> 8]>>, <<[title |-> "no id"]>>}

\* Variant lists: n variants with distinct ids.  The first variant has a
\* print area at "back", no "print_areas" key, an empty "print_areas" list,
\* or a print area without "position"; the later ones have a print area at
\* "front".  The ids ascend (101, 102, ...); the longest list also comes
\* with descending ids, and the incomplete first variants come in lists of
\* one and two.  In the lists of shape "lastnoid" the last variant has no
\* "id" key.
FirstShapes == {"back", "nokey", "empty", "noposition"}
VariantId(n, k, rev) == IF rev THEN 100 + (n - k + 1) ELSE 100 + k
MkVariant(n, k, rev, shape) ==
    IF shape = "lastnoid" /\ k = n
    THEN [sku |-> "x", print_areas |-> <<[position |-> "front"]>>]
    ELSE IF k > 1 \/ shape \in {"back", "lastnoid"}
    THEN [id |-> VariantId(n, k, rev),
          print_areas |-> <<[position |-> IF k = 1 THEN "back" ELSE "front"]>>]
    ELSE CASE shape = "nokey" -> [id |-> VariantId(n, k, rev)]
           [] shape = "empty" -> [id |-> VariantId(n, k, rev), print_areas |-> <<>>]
           [] shape = "noposition" ->
                [id |-> VariantId(n, k, rev), print_areas |-> <<[height |-> 10]>>]
VariantLists ==
    {<<>>} \cup
    {[k \in 1..n |-> MkVariant(n, k, FALSE, "back")] : n \in 1..MaxVariants} \cup
    {[k \in 1..n |-> MkVariant(n, k, FALSE, shape)] :
        n \in 1..Min(2, MaxVariants), shape \in FirstShapes} \cup
    {[k \in 1..MaxVariants |-> MkVariant(MaxVariants, k, TRUE, "back")]} \cup
    {[k \in 1..n |-> MkVariant(n, k, FALSE, "lastnoid")] : n \in 2..MaxVariants}

CreateBodies == {[id |-> "prod_1"], [id |-> "prod_2"], [errors |-> "no id"]}
CreateErrorBodies == {[id |-> "prod_1"]}

-----------------------------------------------------------------------------
(* Pure parts of the code *)

\* Python truthiness of an environment value: None and "" are falsy.
Truthy(v) == v # UNSET /\ v # ""

\* Mutant of ConfigMissing: "and" in the place of "or".
ConfigMissing_And(key, store) == ~Truthy(key) /\ ~Truthy(store)

\* ensure_config: not API_KEY or not STORE_ID
ConfigMissing(key, store) == ~Truthy(key) \/ ~Truthy(store)

\* resp.raise_for_status()
RaiseForStatus(resp) == ~resp.ok

\* d[k] raises KeyError
KeyError(d, k) == k \notin DOMAIN d

\* The comprehension of line 73, [v["id"] for v in variants], reads "id" of
\* every variant: it raises KeyError when any of them has none.
AllIdsRaises(vs) == \E k \in 1..Len(vs) : KeyError(vs[k], "id")

\* The comprehension of line 73 when it does not raise.
AllIds(vs) == [k \in 1..Len(vs) |-> vs[k].id]

\* Mutant of VariantIds: the slice [:2] left out.
VariantIds_NoSlice(vs) == AllIds(vs)

\* Line 73: [v["id"] for v in variants][:2], the slice taken of the whole
\* list of ids.
VariantIds(vs) == SubSeq(AllIds(vs), 1, Min(SLICE_END, Len(AllIds(vs))))

\* [{"id": vid, "price": 2500, "is_enabled": True} for vid in variant_ids]
VariantData(ids) ==
    [k \in 1..Len(ids) |-> [id |-> ids[k], price |-> PRICE, is_enabled |-> TRUE]]

\* The condition of line 75: variants and "print_areas" in variants[0]
ReadsPrintArea(vs) == Len(vs) > 0 /\ ~KeyError(vs[1], "print_areas")

\* Line 75 raises: IndexError on an empty print_areas list, KeyError on an
\* entry without "position".
PrintAreaRaises(vs) ==
    ReadsPrintArea(vs)
    /\ (Len(vs[1].print_areas) = 0 \/ KeyError(vs[1].print_areas[1], "position"))

\* Line 75 when it does not raise.
PrintAreaPosition(vs) ==
    IF ReadsPrintArea(vs) THEN vs[1].print_areas[1].position ELSE DEFAULT_POSITION

\* Lines 76-88.  x, y and scale are in tenths (0.5 is 5, 1.0 is 10).
PrintAreas(ids, position, image) ==
    <<[variant_ids |-> ids,
       placeholders |-> <<[position |-> position,
                           images |-> <<[id |-> image, x10 |-> 5, y10 |-> 5,
                                         scale10 |-> 10, angle |-> 0]>>]>>]>>

\* Line 68; the title is the concatenation of the name and the suffix.
Title(blueprint) == <<blueprint.name>> \o TITLE_SUFFIX

\* Lines 69-72
Desc(blueprint) == <<DESC_PREFIX, blueprint.name, DESC_SUFFIX>>

\* Lines 89-96
ProductData(blueprint, prov, vs, image) ==
    [title |-> Title(blueprint),
     description |-> Desc(blueprint),
     blueprint_id |-> blueprint.id,
     print_provider_id |-> prov.id,
     variants |-> VariantData(VariantIds(vs)),
     print_areas |-> PrintAreas(VariantIds(vs), PrintAreaPosition(vs), image)]

\* Payload construction (lines 68-96) raises before anything is sent: the
\* title (line 68), the ids (line 73) or the position (line 75).
PayloadRaises(blueprint, vs) ==
    KeyError(blueprint, "name") \/ AllIdsRaises(vs) \/ PrintAreaRaises(vs)

\* Mutant of UploadRaises: raise_for_status left out.
UploadRaises_NoStatusCheck(resp) == KeyError(resp.body, "id")

\* upload_logo raises after its request: lines 40-41.
UploadRaises(resp) == RaiseForStatus(resp) \/ KeyError(resp.body, "id")

\* Mutant of BlueprintsRaises: raise_for_status left out.
BlueprintsRaises_NoStatusCheck(resp) == FALSE

\* fetch_blueprints raises after its request: line 49.
BlueprintsRaises(resp) == RaiseForStatus(resp)

\* Mutant of CreateRaises: raise_for_status left out.
CreateRaises_NoStatusCheck(resp) == KeyError(resp.body, "id")

\* The creation request raises: lines 99-100.
CreateRaises(resp) == RaiseForStatus(resp) \/ KeyError(resp.body, "id")

\* The publish request raises: line 106.
PublishRaises(resp) == RaiseForStatus(resp)

-----------------------------------------------------------------------------
(* Log records and requests.  bp is the position of the blueprint in the   *)
(* list (0 outside the loop); name is the text the record shows.           *)

LogRec(level, msg, bp, name) == [level |-> level, msg |-> msg, bp |-> bp, name |-> name]

Blueprint == blueprints[idx]

-----------------------------------------------------------------------------
(* The run *)

Init ==
    /\ API_KEY \in EnvValues
    /\ STORE_ID \in EnvValues
    /\ LOGO_READABLE \in BOOLEAN
    /\ pc = "ensure_config"
    /\ image_id = ""
    /\ blueprints = <<>>
    /\ idx = 0
    /\ providers = <<>>
    /\ provider = <<>>
    /\ variants = <<>>
    /\ product_id = ""
    /\ requests = <<>>
    /\ log = <<>>
    /\ exitStatus = -1

\* An exception that nothing catches: traceback, exit status 1.
Uncaught(emitted) ==
    /\ log' = log \o emitted
    /\ pc' = "done"
    /\ exitStatus' = 1

\* Mutant of ExceptHandler: the failed blueprint is tried again.
ExceptHandler_Retry(emitted) ==
    IF KeyError(Blueprint, "name")
    THEN Uncaught(emitted)
    ELSE /\ log' = log \o emitted \o <<LogRec("ERROR", "Failed for", idx, Blueprint.name)>>
         /\ pc' = "fetch_print_providers"
         /\ exitStatus' = exitStatus

\* The handler of main's loop (lines 125-126) for an exception raised while
\* processing the current blueprint, after the records in emitted.  The
\* handler itself reads blueprint['name'].
ExceptHandler(emitted) ==
    IF KeyError(Blueprint, "name")
    THEN Uncaught(emitted)
    ELSE /\ log' = log \o emitted \o <<LogRec("ERROR", "Failed for", idx, Blueprint.name)>>
         /\ pc' = "for"
         /\ exitStatus' = exitStatus

\* ensure_config (lines 29-32) as called at line 110.
EnsureConfig ==
    /\ pc = "ensure_config"
    /\ IF ConfigMissing(API_KEY, STORE_ID)
       THEN /\ log' = Append(log, LogRec("ERROR", "Set credentials", 0, ""))
            /\ pc' = "done"
            /\ exitStatus' = 1
       ELSE /\ pc' = "upload_logo"
            /\ UNCHANGED <<log, exitStatus>>
    /\ UNCHANGED <<API_KEY, STORE_ID, LOGO_READABLE, image_id, blueprints, idx, providers,
                   provider, variants, product_id, requests>>

\* upload_logo (lines 34-43) as called at line 111.
UploadLogo ==
    /\ pc = "upload_logo"
    /\ LET started == <<LogRec("INFO", "Uploading logo", 0, "")>> IN
       IF ~LOGO_READABLE
       THEN /\ Uncaught(started)
            /\ UNCHANGED <<requests, image_id>>
       ELSE \E resp \in Responses(UploadBodies, UploadErrorBodies) :
            /\ requests' = Append(requests, [kind |-> "upload", ok |-> resp.ok,
                                             body |-> resp.body])
            /\ IF UploadRaises(resp)
               THEN /\ Uncaught(started)
                    /\ UNCHANGED image_id
               ELSE /\ image_id' = resp.body.id
                    /\ log' = log \o started
                               \o <<LogRec("INFO", "Logo uploaded", 0, resp.body.id)>>
                    /\ pc' = "fetch_blueprints"
                    /\ UNCHANGED exitStatus
    /\ UNCHANGED <<API_KEY, STORE_ID, LOGO_READABLE, blueprints, idx, providers, provider,
                   variants, product_id>>

\* fetch_blueprints (lines 45-52) as called at line 112.
FetchBlueprints ==
    /\ pc = "fetch_blueprints"
    /\ \E resp \in Responses(BlueprintLists, {<<>>}) :
         LET started == <<LogRec("INFO", "Fetching blueprints", 0, "")>> IN
         /\ requests' = Append(requests, [kind |-> "blueprints", ok |-> resp.ok])
         /\ IF BlueprintsRaises(resp)
            THEN /\ Uncaught(started)
                 /\ UNCHANGED blueprints
            ELSE /\ blueprints' = resp.body
                 /\ log' = log \o started \o <<LogRec("INFO", "Found blueprints", 0, "")>>
                 /\ pc' = "for"
                 /\ UNCHANGED exitStatus
    /\ UNCHANGED <<API_KEY, STORE_ID, LOGO_READABLE, image_id, idx, providers, provider,
                   variants, product_id>>

\* Line 113: the loop takes the next blueprint.
NextBlueprint ==
    /\ pc = "for"
    /\ idx < Len(blueprints)
    /\ idx' = idx + 1
    /\ pc' = "fetch_print_providers"
    /\ UNCHANGED <<API_KEY, STORE_ID, LOGO_READABLE, image_id, blueprints, providers,
                   provider, variants, product_id, requests, log, exitStatus>>

\* Line 113 with the list exhausted: main returns, exit status 0.
MainReturns ==
    /\ pc = "for"
    /\ idx >= Len(blueprints)
    /\ pc' = "done"
    /\ exitStatus' = 0
    /\ UNCHANGED <<API_KEY, STORE_ID, LOGO_READABLE, image_id, blueprints, idx, providers,
                   provider, variants, product_id, requests, log>>

\* Lines 115-119: fetch_print_providers (lines 54-58), the empty check, the
\* choice of providers[0].
FetchPrintProviders ==
    /\ pc = "fetch_print_providers"
    /\ IF KeyError(Blueprint, "id")
       THEN /\ ExceptHandler(<<>>)
            /\ UNCHANGED <<requests, providers, provider>>
       ELSE \E resp \in Responses(ProviderLists, {<<>>}) :
            /\ requests' = Append(requests, [kind |-> "providers", bp |-> idx,
                                             blueprint_id |-> Blueprint.id,
                                             ok |-> resp.ok, count |-> Len(resp.body)])
            /\ IF RaiseForStatus(resp)
               THEN /\ ExceptHandler(<<>>)
                    /\ UNCHANGED <<providers, provider>>
               ELSE /\ providers' = resp.body
                    /\ IF Len(resp.body) = 0
                       THEN /\ UNCHANGED provider
                            /\ IF KeyError(Blueprint, "name")
                               THEN ExceptHandler(<<>>)
                               ELSE /\ log' = Append(log, LogRec("WARNING", "No providers",
                                                                 idx, Blueprint.name))
                                    /\ pc' = "for"
                                    /\ UNCHANGED exitStatus
                       ELSE /\ provider' = resp.body[1]
                            /\ pc' = "fetch_variants"
                            /\ UNCHANGED <<log, exitStatus>>
    /\ UNCHANGED <<API_KEY, STORE_ID, LOGO_READABLE, image_id, blueprints, idx, variants,
                   product_id>>

\* Lines 120-123: fetch_variants (lines 60-64) and the empty check.
FetchVariants ==
    /\ pc = "fetch_variants"
    /\ IF KeyError(provider, "id")
       THEN /\ ExceptHandler(<<>>)
            /\ UNCHANGED <<requests, variants>>
       ELSE \E resp \in Responses(VariantLists, {<<>>}) :
            /\ requests' = Append(requests, [kind |-> "variants", bp |-> idx,
                                             blueprint_id |-> Blueprint.id,
                                             provider_id |-> provider.id,
                                             ok |-> resp.ok, count |-> Len(resp.body)])
            /\ IF RaiseForStatus(resp)
               THEN /\ ExceptHandler(<<>>)
                    /\ UNCHANGED variants
               ELSE /\ variants' = resp.body
                    /\ IF Len(resp.body) = 0
                       THEN IF KeyError(Blueprint, "name")
                            THEN ExceptHandler(<<>>)
                            ELSE /\ log' = Append(log, LogRec("WARNING", "No variants",
                                                              idx, Blueprint.name))
                                 /\ pc' = "for"
                                 /\ UNCHANGED exitStatus
                       ELSE /\ pc' = "create_product"
                            /\ UNCHANGED <<log, exitStatus>>
    /\ UNCHANGED <<API_KEY, STORE_ID, LOGO_READABLE, image_id, blueprints, idx, providers,
                   provider, product_id>>

\* create_and_publish_product, lines 68-101: payload construction and the
\* creation request.
CreateProduct ==
    /\ pc = "create_product"
    /\ IF PayloadRaises(Blueprint, variants)
       THEN /\ ExceptHandler(<<>>)
            /\ UNCHANGED <<requests, product_id>>
       ELSE \E resp \in Responses(CreateBodies, CreateErrorBodies) :
            /\ requests' = Append(requests,
                   [kind |-> "create", bp |-> idx,
                    payload |-> ProductData(Blueprint, provider, variants, image_id),
                    ok |-> resp.ok, body |-> resp.body])
            /\ IF CreateRaises(resp)
               THEN /\ ExceptHandler(<<>>)
                    /\ UNCHANGED product_id
               ELSE /\ product_id' = resp.body.id
                    /\ log' = Append(log, LogRec("INFO", "Created product", idx,
                                                 Blueprint.name))
                    /\ pc' = "publish_product"
                    /\ UNCHANGED exitStatus
    /\ UNCHANGED <<API_KEY, STORE_ID, LOGO_READABLE, image_id, blueprints, idx, providers,
                   provider, variants>>

\* create_and_publish_product, lines 102-107: the publish request.
PublishProduct ==
    /\ pc = "publish_product"
    /\ \E resp \in Responses({<<>>}, {<<>>}) :
         /\ requests' = Append(requests, [kind |-> "publish", bp |-> idx,
                                          product_id |-> product_id,
                                          data |-> PUBLISH_DATA, ok |-> resp.ok])
         /\ IF PublishRaises(resp)
            THEN ExceptHandler(<<>>)
            ELSE /\ log' = Append(log, LogRec("INFO", "Published product", idx,
                                              Blueprint.name))
                 /\ pc' = "for"
                 /\ UNCHANGED exitStatus
    /\ UNCHANGED <<API_KEY, STORE_ID, LOGO_READABLE, image_id, blueprints, idx, providers,
                   provider, variants, product_id>>

Next ==
    \/ EnsureConfig
    \/ UploadLogo
    \/ FetchBlueprints
    \/ NextBlueprint
    \/ MainReturns
    \/ FetchPrintProviders
    \/ FetchVariants
    \/ CreateProduct
    \/ PublishProduct

Spec == Init /\ [][Next]_vars

-----------------------------------------------------------------------------
(* What a run shows: its requests and its log records *)

PerBlueprintKinds == {"providers", "variants", "create", "publish"}

ReqIdx(kind) == {i \in DOMAIN requests : requests[i].kind = kind}
ReqIdxFor(kind, k) == {i \in ReqIdx(kind) : requests[i].bp = k}

HasLog(msg) == \E i \in DOMAIN log : log[i].msg = msg

Published(k) == \E i \in DOMAIN log : log[i].msg = "Published product" /\ log[i].bp = k
Skipped(k) == \E i \in DOMAIN log : log[i].level = "WARNING" /\ log[i].bp = k
Failed(k) == \E i \in DOMAIN log :
                /\ log[i].level = "ERROR" /\ log[i].msg = "Failed for"
                /\ log[i].bp = k /\ log[i].name = BlueprintName(k)

\* A credential is missing when the variable is not set or is empty.
Missing(v) == v = UNSET \/ v = ""

\* The blueprint at position k has left the loop body.
Finished(k) == k < idx \/ (k = idx /\ pc \in {"for", "done"})

-----------------------------------------------------------------------------
(* C1 *)

\* C1: an exception raised while processing one blueprint is caught in
\* main's loop and logged with the blueprint's name, and the run never
\* aborts because of one blueprint: once the loop has started the process
\* never ends with status 1, and every finished blueprint one of whose
\* requests failed has its "Failed for <name>" record.
C1_FailureIsolated ==
    /\ idx >= 1 => exitStatus # 1
    /\ \A i \in DOMAIN requests :
         (/\ requests[i].kind \in PerBlueprintKinds
          /\ ~requests[i].ok
          /\ Finished(requests[i].bp)) => Failed(requests[i].bp)

-----------------------------------------------------------------------------
(* C2 *)

\* C2: with a credential missing the process ends with status 1 right after
\* the check and issues no request at all; with both present the check logs
\* nothing and the run goes on to the upload.
C2_ConfigCheck ==
    /\ ((Missing(API_KEY) \/ Missing(STORE_ID)) /\ pc # "ensure_config")
         => (pc = "done" /\ exitStatus = 1 /\ requests = <<>>)
    /\ (~Missing(API_KEY) /\ ~Missing(STORE_ID) /\ pc # "ensure_config")
         => /\ ~HasLog("Set credentials")
            /\ \/ (pc = "upload_logo" /\ log = <<>> /\ exitStatus = -1)
               \/ (Len(log) >= 1 /\ log[1].msg = "Uploading logo")

C2_Witness ==
    /\ pc = "done" /\ exitStatus = 1
    /\ ~Missing(API_KEY) /\ STORE_ID = ""
    /\ HasLog("Set credentials") /\ requests = <<>>

-----------------------------------------------------------------------------
(* C3 *)

\* upload_logo was entered and failed: the file could not be opened, the
\* response was not 2xx, or its body had no "id".
UploadErrored ==
    /\ HasLog("Uploading logo")
    /\ \/ ~LOGO_READABLE
       \/ /\ requests # <<>>
          /\ (~requests[1].ok \/ "id" \notin DOMAIN requests[1].body)

\* C3: a failed upload ends the whole run: the process ends with status 1,
\* the failure is not logged as a per-blueprint failure, and no request
\* follows the upload request.
C3_UploadFailureIsFatal ==
    UploadErrored =>
        /\ pc = "done" /\ exitStatus = 1
        /\ Len(requests) <= 1
        /\ \A i \in DOMAIN requests : requests[i].kind = "upload"
        /\ ~HasLog("Failed for")

C3_Witness ==
    /\ UploadErrored /\ pc = "done"
    /\ Len(requests) = 1 /\ requests[1].kind = "upload" /\ ~requests[1].ok

-----------------------------------------------------------------------------
(* C4 *)

\* C4: a blueprint whose provider list is empty gets no variant, creation
\* or publish request, and one whose first provider has no variants gets no
\* creation or publish request; in both cases a warning, not an error, is
\* logged for it and the run goes on.
C4_EmptyCatalogSkips ==
    \A i \in DOMAIN requests :
      LET r == requests[i] IN
      /\ (r.kind = "providers" /\ r.ok /\ r.count = 0) =>
            /\ ReqIdxFor("variants", r.bp) = {}
            /\ ReqIdxFor("create", r.bp) = {}
            /\ ReqIdxFor("publish", r.bp) = {}
            /\ Skipped(r.bp) /\ ~Failed(r.bp)
            /\ exitStatus # 1
      /\ (r.kind = "variants" /\ r.ok /\ r.count = 0) =>
            /\ ReqIdxFor("create", r.bp) = {}
            /\ ReqIdxFor("publish", r.bp) = {}
            /\ Skipped(r.bp) /\ ~Failed(r.bp)
            /\ exitStatus # 1

-----------------------------------------------------------------------------
(* C5 *)

\* C5: when the first provider returned at least 2 variants, the payload of
\* the creation request has exactly 2 variant entries, the first two of the
\* response in its order, each with price 2500 and enabled, and its one
\* print-area entry lists the same two ids.  (variants holds the response
\* for the blueprint at idx from its variant request on.)
C5_FirstTwoVariants ==
    \A i \in ReqIdxFor("create", idx) :
      Len(variants) >= 2 =>
        LET p == requests[i].payload IN
        /\ p.variants = <<[id |-> variants[1].id, price |-> 2500, is_enabled |-> TRUE],
                          [id |-> variants[2].id, price |-> 2500, is_enabled |-> TRUE]>>
        /\ Len(p.print_areas) = 1
        /\ p.print_areas[1].variant_ids = <<variants[1].id, variants[2].id>>

C5_Witness ==
    /\ Len(variants) = MaxVariants /\ variants[1].id = 100 + MaxVariants
    /\ \E i \in ReqIdxFor("create", idx) : Len(requests[i].payload.variants) = 2

-----------------------------------------------------------------------------
(* C6 *)

\* C6: a publish request directly follows the creation request of the same
\* blueprint, which returned 2xx with a product id, and targets that id; a
\* blueprint is reported published only if both its calls returned 2xx;
\* after a creation or publish request that failed no request is made for
\* the same blueprint.
C6_CreateThenPublish ==
    /\ \A i \in ReqIdx("publish") :
         /\ i > 1
         /\ requests[i - 1].kind = "create"
         /\ requests[i - 1].bp = requests[i].bp
         /\ requests[i - 1].ok
         /\ "id" \in DOMAIN requests[i - 1].body
         /\ requests[i].product_id = requests[i - 1].body.id
    /\ \A k \in 1..idx :
         Published(k) =>
           /\ \E c \in ReqIdxFor("create", k) : requests[c].ok
           /\ \E q \in ReqIdxFor("publish", k) : requests[q].ok
    /\ \A i \in ReqIdx("create") \cup ReqIdx("publish") :
         (~requests[i].ok \/ (requests[i].kind = "create"
                              /\ "id" \notin DOMAIN requests[i].body)) =>
           \A j \in (i + 1)..Len(requests) : requests[j].bp # requests[i].bp

C6_Witness ==
    /\ Published(1)
    /\ \E i \in ReqIdxFor("publish", 1) : requests[i].product_id = "prod_2"
    /\ \E i \in ReqIdxFor("publish", 2) : ~requests[i].ok
    /\ pc = "done"

-----------------------------------------------------------------------------
(* C7 *)

FirstEntryPresent(vs) == "print_areas" \in DOMAIN vs[1] /\ Len(vs[1].print_areas) >= 1

\* C7: for a blueprint that reaches payload construction the payload has
\* one placeholder, whose position is that of the first variant's first
\* print-area entry if that entry is present and "front" otherwise, with
\* one image entry: the uploaded asset at x 0.5, y 0.5, scale 1.0, angle 0.
\* Stated for the blueprints that have a name, whose variants all have an
\* id and whose first entry, when present, has a position.
C7_PlacementPosition ==
    (/\ idx >= 1
     /\ pc \in {"publish_product", "for", "done"}
     /\ \E i \in ReqIdxFor("variants", idx) : requests[i].ok /\ requests[i].count > 0
     /\ "name" \in DOMAIN Blueprint
     /\ \A k \in 1..Len(variants) : "id" \in DOMAIN variants[k]
     /\ FirstEntryPresent(variants) => "position" \in DOMAIN variants[1].print_areas[1])
    => \E i \in ReqIdxFor("create", idx) :
         LET areas == requests[i].payload.print_areas IN
         /\ Len(areas) = 1
         /\ areas[1].placeholders =
              <<[position |-> IF FirstEntryPresent(variants)
                              THEN variants[1].print_areas[1].position
                              ELSE "front",
                 images |-> <<[id |-> image_id, x10 |-> 5, y10 |-> 5,
                               scale10 |-> 10, angle |-> 0]>>]>>

-----------------------------------------------------------------------------
(* C8 *)

OutcomeCount(k) ==
    (IF Published(k) THEN 1 ELSE 0) + (IF Skipped(k) THEN 1 ELSE 0)
    + (IF Failed(k) THEN 1 ELSE 0)

\* C8: once the blueprint listing has succeeded, the run ends with exit
\* status 0, having processed every blueprint of the list, each ending in
\* exactly one of the outcomes published, skipped and failed-and-logged.
C8_EndsWithThreeOutcomes ==
    (pc = "done" /\ HasLog("Found blueprints")) =>
        /\ exitStatus = 0
        /\ idx = Len(blueprints)
        /\ \A k \in 1..Len(blueprints) : OutcomeCount(k) = 1

-----------------------------------------------------------------------------
(* C9 *)

\* The same request is not issued twice: no two upload requests, no two
\* blueprint-listing requests, and no two requests of one kind for one
\* blueprint.
AtMostOnePerBlueprint ==
    \A i, j \in DOMAIN requests :
      (i < j /\ requests[i].kind = requests[j].kind) =>
        /\ requests[i].kind \in PerBlueprintKinds
        /\ requests[i].bp # requests[j].bp

\* C9 as stated: a finished run has issued exactly one upload request, at
\* most one blueprint-listing request and, per blueprint, at most one
\* request of each kind.
C9_ExactlyOneUpload ==
    pc = "done" => (Cardinality(ReqIdx("upload")) = 1 /\ AtMostOnePerBlueprint)

\* C9: no request is retried: at most one upload request, at most one
\* blueprint-listing request and, per blueprint, at most one request of
\* each kind; the upload request is issued exactly once in every run that
\* has passed the configuration check and opened the logo file.
C9_NoRetry ==
    /\ (/\ ~Missing(API_KEY) /\ ~Missing(STORE_ID) /\ LOGO_READABLE
        /\ pc \notin {"ensure_config", "upload_logo"})
         => Cardinality(ReqIdx("upload")) = 1
    /\ ((Missing(API_KEY) \/ Missing(STORE_ID) \/ ~LOGO_READABLE)
         => ReqIdx("upload") = {})
    /\ AtMostOnePerBlueprint

C9_Witness ==
    /\ pc = "done" /\ exitStatus = 0 /\ Len(blueprints) = MaxBlueprints
    /\ Cardinality(ReqIdx("upload")) = 1
    /\ \E i \in ReqIdxFor("providers", 1) : ~requests[i].ok
    /\ \E i \in ReqIdxFor("publish", 2) : ~requests[i].ok

-----------------------------------------------------------------------------
(* C10 *)

\* C10: a failed blueprint-listing request comes after the upload request,
\* which succeeded, and ends the run: the process ends with status 1, the
\* failure is not logged as a per-blueprint failure, and no request follows.
C10_ListingFailureIsFatal ==
    \A i \in ReqIdx("blueprints") :
      ~requests[i].ok =>
        /\ pc = "done" /\ exitStatus = 1
        /\ i = 2 /\ Len(requests) = 2
        /\ requests[1].kind = "upload" /\ requests[1].ok
        /\ image_id # ""
        /\ ~HasLog("Failed for")

C10_Witness ==
    /\ pc = "done"
    /\ \E i \in ReqIdx("blueprints") : ~requests[i].ok
    /\ HasLog("Logo uploaded")

====
